---- MODULE Spec2Model ----
(***************************************************************************)
(* Model of earthquake_app.py: a Streamlit script that is re-executed from *)
(* top to bottom on every rerun.  get_earthquake_data() is memoized by     *)
(* st.cache_data; the rest of the script filters the table by the slider   *)
(* threshold and renders the metrics, the map, the table and the hourly    *)
(* histogram.                                                              *)
(*                                                                         *)
(* Magnitudes and thresholds are in tenths (4.5 is 45).  JSON objects are  *)
(* records whose DOMAIN is the set of keys present, so a missing key is a  *)
(* missing field.  Timestamps are epoch milliseconds.                      *)
(***************************************************************************)
EXTENDS Integers, Sequences, FiniteSets

\* ---------------------------------------------------------------- bounds
MaxFeatures == 2        \* longest 'features' array the feed returns
NumPlaces == 2          \* distinct places reported by the feed

\* ------------------------------------------------------ program constants
SliderMin == 25         \* min_value=2.5
SliderMax == 80         \* max_value=8.0
SliderDefault == 45     \* value=4.5
RadiusBase == 20000
RadiusRefMag == 40      \* the 4 of (mag - 4)

\* ------------------------------------------------------------ input sets
Null == -1              \* JSON null / Python None (magnitudes are positive)

\* magnitudes the feed reports in the model: whole units, so that
\* 1.5 ** (mag - 4) is an exact rational
Mags == {30, 50}

\* slider positions explored: below every magnitude, equal to the lower
\* one, the default (between both), equal to the higher one, above all
SliderValues == {SliderMin, 30, SliderDefault, 50, SliderMax}

Places == 1..NumPlaces

\* place p is reported at a fixed time, 1970-01-02 23:59:00.001 for place 1
\* and 00:00:59.999, 05:00:59.999, ... on 1970-01-01 for the others
TimeOf(p) ==
    IF p = 1 THEN 86400000 + 23 * 3600000 + 59 * 60000 + 1
    ELSE (p - 2) * 5 * 3600000 + 59999

\* place p lies at fixed coordinates [lon, lat]
CoordsOf(p) == IF p = 1 THEN <<10, 20>> ELSE <<-70 - p, -33>>

GoodFeatures ==
    { [properties |-> [mag |-> m, place |-> p, time |-> TimeOf(p)],
       geometry |-> [coordinates |-> CoordsOf(p)]] :
      m \in Mags \cup {Null}, p \in Places }

\* features that lack something the normalizer reads
NoProperties == [geometry |-> [coordinates |-> <<10, 20>>]]
NoMagKey == [properties |-> [place |-> 1, time |-> 59999],
             geometry |-> [coordinates |-> <<10, 20>>]]
NoGeometry == [properties |-> [mag |-> 50, place |-> 1, time |-> 59999]]
ShortCoordinates == [properties |-> [mag |-> 50, place |-> 1, time |-> 59999],
                     geometry |-> [coordinates |-> <<10>>]]
NullMagNoGeometry == [properties |-> [mag |-> Null, place |-> 1, time |-> 59999]]

Features ==
    GoodFeatures \cup
    {NoProperties, NoMagKey, NoGeometry, ShortCoordinates, NullMagNoGeometry}

FeatureLists == UNION { [1..n -> Features] : n \in 0..MaxFeatures }

StatusCodes == {200, 503}

\* what requests.get(url, timeout=10) can produce
Responses ==
    {[kind |-> "neterr"]} \cup
    {[kind |-> "badjson", status |-> s] : s \in StatusCodes} \cup
    {[kind |-> "json", status |-> s, body |-> [type |-> "error"]] :
        s \in StatusCodes} \cup
    {[kind |-> "json", status |-> s, body |-> [features |-> fl]] :
        s \in StatusCodes, fl \in FeatureLists}

NoResponse == [kind |-> "none"]

\* ------------------------------------------------------------- helpers
Has(obj, key) == key \in DOMAIN obj

RECURSIVE Pow(_, _)
Pow(b, e) == IF e = 0 THEN 1 ELSE b * Pow(b, e - 1)

\* 20000 * (1.5 ** (mag - 4)) as the exact rational num/den
Radius(mag) ==
    LET k == (mag - RadiusRefMag) \div 10
    IN  IF k >= 0
        THEN [num |-> RadiusBase * Pow(3, k), den |-> Pow(2, k)]
        ELSE [num |-> RadiusBase * Pow(2, -k), den |-> Pow(3, -k)]

\* pd.to_datetime(ms, unit='ms').strftime('%Y-%m-%d %H:%M'): the string is
\* the record of its fields; seconds and milliseconds are dropped.  Valid
\* for timestamps in January 1970.
TimeStr(ms) ==
    LET minutes == ms \div 60000
    IN  [Y |-> 1970, m |-> 1, d |-> 1 + minutes \div 1440,
         H |-> (minutes \div 60) % 24, M |-> minutes % 60]

\* pd.to_datetime('%Y-%m-%d %H:%M' string)
ParseDatetime(s) ==
    [year |-> s.Y, month |-> s.m, day |-> s.d,
     hour |-> s.H, minute |-> s.M, second |-> 0]

\* ------------------------------------------------- get_earthquake_data
EventColumns == {"lat", "lon", "mag", "place", "time", "radius"}

EmptyFrame == [columns |-> {}, rows |-> <<>>]

\* pd.DataFrame(list of dicts): an empty list gives a frame without columns
DataFrame(parsed_data) ==
    IF Len(parsed_data) = 0 THEN EmptyFrame
    ELSE [columns |-> EventColumns, rows |-> parsed_data]

\* the exception raised while one feature is processed, "none" if none
ItemException(item) ==
    IF ~Has(item, "properties") THEN "KeyError"
    ELSE IF ~Has(item.properties, "mag") THEN "KeyError"
    ELSE IF item.properties.mag = Null THEN "none"
    ELSE IF ~Has(item, "geometry") THEN "KeyError"
    ELSE IF Len(item.geometry.coordinates) < 2 THEN "IndexError"
    ELSE "none"

\* variant of MakeEvent with the two coordinate indices exchanged
MakeEventSwapped(item) ==
    [lat |-> item.geometry.coordinates[1],
     lon |-> item.geometry.coordinates[2],
     mag |-> item.properties.mag,
     place |-> item.properties.place,
     time |-> TimeStr(item.properties.time),
     radius |-> Radius(item.properties.mag)]

\* the dict appended for one feature (Python index 0 is TLA+ index 1)
MakeEvent(item) ==
    [lat |-> item.geometry.coordinates[2],
     lon |-> item.geometry.coordinates[1],
     mag |-> item.properties.mag,
     place |-> item.properties.place,
     time |-> TimeStr(item.properties.time),
     radius |-> Radius(item.properties.mag)]

\* variant of AppendEvent that inserts at the head of the list
AppendEventFront(parsed_data, ev) == <<ev>> \o parsed_data

\* parsed_data.append({...})
AppendEvent(parsed_data, ev) == Append(parsed_data, ev)

\* the for loop over features, from index i with parsed_data so far
RECURSIVE NormalizeLoop(_, _, _)
NormalizeLoop(features, i, parsed_data) ==
    IF i > Len(features) THEN [exc |-> "none", parsed_data |-> parsed_data]
    ELSE LET item == features[i]
             exc == ItemException(item)
         IN  IF exc # "none"
             THEN [exc |-> exc, parsed_data |-> parsed_data]
             ELSE IF item.properties.mag # Null
             THEN NormalizeLoop(features, i + 1,
                                AppendEvent(parsed_data, MakeEvent(item)))
             ELSE NormalizeLoop(features, i + 1, parsed_data)

\* the body of the try block
TryBody(resp) ==
    IF resp.kind = "neterr"
    THEN [exc |-> "RequestException", parsed_data |-> <<>>]
    ELSE IF resp.kind = "badjson"
    THEN [exc |-> "JSONDecodeError", parsed_data |-> <<>>]
    ELSE IF ~Has(resp.body, "features")
    THEN [exc |-> "KeyError", parsed_data |-> <<>>]
    ELSE NormalizeLoop(resp.body.features, 1, <<>>)

\* variant of ExceptCatches: except requests.RequestException
ExceptCatchesRequestOnly(exc) == exc = "RequestException"

\* except Exception as e
ExceptCatches(exc) == TRUE

\* one call of the undecorated function: the table returned, the number of
\* st.error messages it emitted, the exception it lets escape
get_earthquake_data(resp) ==
    LET r == TryBody(resp)
    IN  IF r.exc = "none"
        THEN [raised |-> "none", df |-> DataFrame(r.parsed_data), errors |-> 0]
        ELSE IF ExceptCatches(r.exc)
        THEN [raised |-> "none", df |-> EmptyFrame, errors |-> 1]
        ELSE [raised |-> r.exc, df |-> EmptyFrame, errors |-> 0]

\* --------------------------------------------------------- st.cache_data
NoCache == [set |-> FALSE]

\* variant of Memoize that keeps no entry for a failed fetch
MemoizeSuccessOnly(result) ==
    IF result.errors = 0
    THEN [set |-> TRUE, df |-> result.df, errors |-> result.errors]
    ELSE NoCache

\* st.cache_data stores whatever the function returns, with the st.error
\* element it emitted, and replays both on a hit
Memoize(result) ==
    [set |-> TRUE, df |-> result.df, errors |-> result.errors]

\* ------------------------------------------------------------ the state
VARIABLES
    response,       \* what the one HTTP GET of this cache window returned
    httpGets,       \* number of requests.get calls made
    st_cache,       \* the st.cache_data entry of get_earthquake_data
    pc,             \* position of the script run
    fault,          \* source line of the unhandled exception, 0 if none
    loaded,         \* how this run obtained df: "none", "miss", "hit"
    st_errors,      \* st.error messages shown in this run
    min_mag,        \* slider value
    df,             \* line 51
    filtered_df,    \* line 54
    metrics,        \* lines 60-63
    layer,          \* lines 68-75
    hourly_counts,  \* line 113
    ui              \* elements rendered in this run, in order

vars == <<response, httpGets, st_cache, pc, fault, loaded, st_errors, min_mag,
          df, filtered_df, metrics, layer, hourly_counts, ui>>

\* a name the run has not bound yet
Unbound == [unbound |-> TRUE]

Init ==
    /\ response = NoResponse
    /\ httpGets = 0
    /\ st_cache = NoCache
    /\ pc = "idle"
    /\ fault = 0
    /\ loaded = "none"
    /\ st_errors = 0
    /\ min_mag = SliderDefault
    /\ df = Unbound
    /\ filtered_df = Unbound
    /\ metrics = Unbound
    /\ layer = Unbound
    /\ hourly_counts = Unbound
    /\ ui = <<>>

\* ------------------------------------------------- filter and histogram
\* df[df['mag'] >= min_mag]: a new frame with the same columns
Filter(d, threshold) ==
    [columns |-> d.columns,
     rows |-> SelectSeq(d.rows, LAMBDA r : r.mag >= threshold)]

RECURSIVE MaxMag(_)
\* filtered_df['mag'].max() of a non-empty frame
MaxMag(rows) ==
    IF Len(rows) = 1 THEN rows[1].mag
    ELSE LET m == MaxMag(Tail(rows))
         IN  IF rows[1].mag >= m THEN rows[1].mag ELSE m

\* the ScatterplotLayer: get_position='[lon, lat]', get_radius='radius'
ScatterplotLayer(d) ==
    [get_position |-> [i \in DOMAIN d.rows |-> <<d.rows[i].lon, d.rows[i].lat>>],
     get_radius |-> [i \in DOMAIN d.rows |-> d.rows[i].radius]]

\* the frame with the 'datetime' and 'hour' columns of lines 106 and 110
WithHourColumns(d) ==
    [columns |-> d.columns \cup {"datetime", "hour"},
     rows |-> [i \in DOMAIN d.rows |->
                 [lat |-> d.rows[i].lat, lon |-> d.rows[i].lon,
                  mag |-> d.rows[i].mag, place |-> d.rows[i].place,
                  time |-> d.rows[i].time, radius |-> d.rows[i].radius,
                  datetime |-> ParseDatetime(d.rows[i].time),
                  hour |-> ParseDatetime(d.rows[i].time).hour]]]

\* variant of AssignColumns in which the assignment also lands in df
AssignColumnsShared(source, filtered) ==
    [df |-> WithHourColumns(source), filtered_df |-> WithHourColumns(filtered)]

\* filtered_df[...] = ...: filtered_df is the copy boolean indexing made,
\* so the columns are added to it and not to df
AssignColumns(source, filtered) ==
    [df |-> source, filtered_df |-> WithHourColumns(filtered)]

\* number of occurrences of v in s
Count(s, v) == Cardinality({i \in DOMAIN s : s[i] = v})

RECURSIVE Distinct(_)
\* the distinct values of s in order of first appearance
Distinct(s) ==
    IF Len(s) = 0 THEN <<>>
    ELSE LET rest == Distinct(SelectSeq(Tail(s), LAMBDA x : x # s[1]))
         IN  <<s[1]>> \o rest

RECURSIVE InsertByCount(_, _, _)
\* insert value v into keys, ordered by decreasing count in s, after ties
InsertByCount(keys, v, s) ==
    IF Len(keys) = 0 THEN <<v>>
    ELSE IF Count(s, v) > Count(s, keys[1]) THEN <<v>> \o keys
    ELSE <<keys[1]>> \o InsertByCount(Tail(keys), v, s)

RECURSIVE OrderByCount(_, _, _)
OrderByCount(todo, keys, s) ==
    IF Len(todo) = 0 THEN keys
    ELSE OrderByCount(Tail(todo), InsertByCount(keys, todo[1], s), s)

\* Series.value_counts(): one entry per distinct value, most frequent first
ValueCounts(s) ==
    LET keys == OrderByCount(Distinct(s), <<>>, s)
    IN  [index |-> keys, values |-> [i \in DOMAIN keys |-> Count(s, keys[i])]]

RECURSIVE InsertByIndex(_, _)
\* insert position p of series.index into the ascending list of positions
InsertByIndex(sorted, entry) ==
    IF Len(sorted) = 0 THEN <<entry>>
    ELSE IF entry[1] < sorted[1][1] THEN <<entry>> \o sorted
    ELSE <<sorted[1]>> \o InsertByIndex(Tail(sorted), entry)

RECURSIVE SortEntries(_, _, _)
SortEntries(series, i, sorted) ==
    IF i > Len(series.index) THEN sorted
    ELSE SortEntries(series, i + 1,
                     InsertByIndex(sorted, <<series.index[i], series.values[i]>>))

\* variant of SortIndex: value_counts() without sort_index()
SortIndexOmitted(series) == series

\* Series.sort_index(): entries by ascending index
SortIndex(series) ==
    LET sorted == SortEntries(series, 1, <<>>)
    IN  [index |-> [i \in DOMAIN sorted |-> sorted[i][1]],
         values |-> [i \in DOMAIN sorted |-> sorted[i][2]]]

\* filtered_df['hour'].value_counts().sort_index()
HourlyCounts(d) ==
    SortIndex(ValueCounts([i \in DOMAIN d.rows |-> d.rows[i].hour]))

\* -------------------------------------------------------------- actions
\* a script run starts: the slider yields v and no name is bound yet
FreshRun(v) ==
    /\ pc' = "load"
    /\ fault' = 0
    /\ loaded' = "none"
    /\ st_errors' = 0
    /\ min_mag' = v
    /\ df' = Unbound
    /\ filtered_df' = Unbound
    /\ metrics' = Unbound
    /\ layer' = Unbound
    /\ hourly_counts' = Unbound
    /\ ui' = <<"sidebar">>
    /\ UNCHANGED <<response, httpGets, st_cache>>

\* the first run of the session: the slider is at its default
FirstRun ==
    /\ pc = "idle"
    /\ FreshRun(SliderDefault)

\* the user moves the slider to v and the script is run again
Rerun(v) ==
    /\ pc \in {"done", "crashed"}
    /\ FreshRun(v)

\* df = get_earthquake_data() with no cache entry: the function body runs
LoadMiss(resp) ==
    /\ pc = "load"
    /\ ~st_cache.set
    /\ LET r == get_earthquake_data(resp)
       IN  /\ response' = resp
           /\ httpGets' = httpGets + 1
           /\ IF r.raised = "none"
              THEN /\ st_cache' = Memoize(r)
                   /\ df' = r.df
                   /\ st_errors' = st_errors + r.errors
                   /\ ui' = IF r.errors > 0 THEN Append(ui, "error") ELSE ui
                   /\ loaded' = "miss"
                   /\ pc' = "filter"
                   /\ fault' = fault
              ELSE /\ pc' = "crashed"
                   /\ fault' = 51
                   /\ UNCHANGED <<st_cache, df, st_errors, ui, loaded>>
    /\ UNCHANGED <<min_mag, filtered_df, metrics, layer, hourly_counts>>

\* df = get_earthquake_data() with a cache entry: value and st.error replayed
LoadHit ==
    /\ pc = "load"
    /\ st_cache.set
    /\ df' = st_cache.df
    /\ st_errors' = st_errors + st_cache.errors
    /\ ui' = IF st_cache.errors > 0 THEN Append(ui, "error") ELSE ui
    /\ loaded' = "hit"
    /\ pc' = "filter"
    /\ UNCHANGED <<response, httpGets, st_cache, fault, min_mag, filtered_df,
                   metrics, layer, hourly_counts>>

\* filtered_df = df[df['mag'] >= min_mag]; KeyError without a 'mag' column
FilterStep ==
    /\ pc = "filter"
    /\ IF "mag" \in df.columns
       THEN /\ filtered_df' = Filter(df, min_mag)
            /\ pc' = "metrics"
            /\ fault' = fault
       ELSE /\ pc' = "crashed"
            /\ fault' = 54
            /\ filtered_df' = filtered_df
    /\ UNCHANGED <<response, httpGets, st_cache, loaded, st_errors, min_mag, df,
                   metrics, layer, hourly_counts, ui>>

\* st.title and the three st.metric
MetricsStep ==
    /\ pc = "metrics"
    /\ metrics' = [count |-> Len(filtered_df.rows),
                   max |-> IF Len(filtered_df.rows) > 0
                           THEN MaxMag(filtered_df.rows) ELSE 0,
                   threshold |-> min_mag]
    /\ ui' = ui \o <<"title", "metric", "metric", "metric">>
    /\ pc' = "map"
    /\ UNCHANGED <<response, httpGets, st_cache, fault, loaded, st_errors,
                   min_mag, df, filtered_df, layer, hourly_counts>>

\* st.pydeck_chart for a non-empty frame, st.warning otherwise
MapStep ==
    /\ pc = "map"
    /\ IF Len(filtered_df.rows) > 0
       THEN /\ layer' = ScatterplotLayer(filtered_df)
            /\ ui' = Append(ui, "pydeck_chart")
       ELSE /\ layer' = layer
            /\ ui' = Append(ui, "warning")
    /\ pc' = "table"
    /\ UNCHANGED <<response, httpGets, st_cache, fault, loaded, st_errors,
                   min_mag, df, filtered_df, metrics, hourly_counts>>

\* st.dataframe(filtered_df[['time', 'place', 'mag', 'lat', 'lon']])
TableStep ==
    /\ pc = "table"
    /\ IF {"time", "place", "mag", "lat", "lon"} \subseteq filtered_df.columns
       THEN /\ ui' = Append(ui, "dataframe")
            /\ pc' = "stats"
            /\ fault' = fault
       ELSE /\ ui' = ui
            /\ pc' = "crashed"
            /\ fault' = 97
    /\ UNCHANGED <<response, httpGets, st_cache, loaded, st_errors, min_mag, df,
                   filtered_df, metrics, layer, hourly_counts>>

\* the hourly histogram for a non-empty frame, st.info otherwise
StatsStep ==
    /\ pc = "stats"
    /\ IF Len(filtered_df.rows) > 0
       THEN LET a == AssignColumns(df, filtered_df)
            IN  /\ df' = a.df
                /\ filtered_df' = a.filtered_df
                /\ hourly_counts' = HourlyCounts(a.filtered_df)
                /\ ui' = ui \o <<"subheader", "bar_chart", "caption">>
       ELSE /\ ui' = ui \o <<"subheader", "info">>
            /\ UNCHANGED <<df, filtered_df, hourly_counts>>
    /\ pc' = "done"
    /\ UNCHANGED <<response, httpGets, st_cache, fault, loaded, st_errors,
                   min_mag, metrics, layer>>

Next ==
    \/ FirstRun
    \/ \E v \in SliderValues : Rerun(v)
    \/ \E resp \in Responses : LoadMiss(resp)
    \/ LoadHit
    \/ FilterStep
    \/ MetricsStep
    \/ MapStep
    \/ TableStep
    \/ StatsStep

Spec == Init /\ [][Next]_vars

\* ----------------------------------------------- vocabulary of the claims
\* a feature the normalizer cannot process
BadItem(item) ==
    \/ ~Has(item, "properties")
    \/ ~Has(item.properties, "mag")
    \/ /\ item.properties.mag # Null
       /\ \/ ~Has(item, "geometry")
          \/ Len(item.geometry.coordinates) < 2

\* a feature whose only defect is that properties has no 'mag' key
MagAbsent(item) == Has(item, "properties") /\ ~Has(item.properties, "mag")

HasFeatures(resp) == resp.kind = "json" /\ Has(resp.body, "features")

\* network error, timeout, malformed JSON or missing keys
AcquisitionFails(resp) ==
    \/ resp.kind \in {"neterr", "badjson"}
    \/ resp.kind = "json" /\ ~Has(resp.body, "features")
    \/ HasFeatures(resp) /\
         \E i \in DOMAIN resp.body.features : BadItem(resp.body.features[i])

SuccessfulFetch(resp) ==
    HasFeatures(resp) /\
      \A i \in DOMAIN resp.body.features : ~BadItem(resp.body.features[i])

\* indices of the features with a non-null magnitude
Kept(features) == {i \in DOMAIN features : features[i].properties.mag # Null}

\* position of index i among the indices of K, in ascending order
Rank(K, i) == Cardinality({j \in K : j <= i})

RECURSIVE SumSeq(_)
SumSeq(s) == IF Len(s) = 0 THEN 0 ELSE s[1] + SumSeq(Tail(s))

\* line 54 has been executed in this run, to completion or to an exception
FilterAttempted ==
    pc \in {"metrics", "map", "table", "stats", "done"} \/ fault = 54

\* -------------------------------------------------------------------- C1
\* C1: after a data acquisition failure the run raises no unhandled
\* exception, and once it is over the dashboard shows the warning and the
\* "no data" notice, whatever the slider threshold.
C1_FailureRunCompletes ==
    AcquisitionFails(response) =>
        /\ pc # "crashed"
        /\ pc = "done" =>
             /\ \E i \in DOMAIN ui : ui[i] = "warning"
             /\ \E i \in DOMAIN ui : ui[i] = "info"

\* -------------------------------------------------------------------- C2
\* C2: get_earthquake_data() lets no exception escape, and for every failure
\* inside it the run shows exactly one error message and reads a table with
\* zero events.
C2_NoPropagation ==
    /\ fault # 51
    /\ (df # Unbound /\ AcquisitionFails(response)) =>
          /\ st_errors = 1
          /\ Len(df.rows) = 0

\* a fetch that failed at its second feature, after the first was appended
C2_Witness ==
    /\ loaded = "miss"
    /\ HasFeatures(response)
    /\ Len(response.body.features) = 2
    /\ ~BadItem(response.body.features[1])
    /\ response.body.features[1].properties.mag # Null
    /\ BadItem(response.body.features[2])

\* -------------------------------------------------------------------- C3
\* C3: after a successful fetch the table holds one event per feature with a
\* non-null magnitude, in feed order, none for a null magnitude, and no
\* event has a null magnitude.
C3_OneEventPerNonNullMag ==
    (df # Unbound /\ SuccessfulFetch(response)) =>
        LET f == response.body.features
            K == Kept(f)
        IN  /\ Len(df.rows) = Cardinality(K)
            /\ \A i \in K :
                 /\ df.rows[Rank(K, i)].mag = f[i].properties.mag
                 /\ df.rows[Rank(K, i)].place = f[i].properties.place
                 /\ df.rows[Rank(K, i)].time.H =
                      (f[i].properties.time \div 3600000) % 24
            /\ \A j \in DOMAIN df.rows : df.rows[j].mag # Null

\* a feed with a null magnitude ahead of a non-null one has been normalized
C3_Witness ==
    /\ df # Unbound
    /\ SuccessfulFetch(response)
    /\ Len(response.body.features) = 2
    /\ response.body.features[1].properties.mag = Null
    /\ response.body.features[2].properties.mag # Null
    /\ Len(df.rows) = 1

\* -------------------------------------------------------------------- C4
\* C4: for every threshold and every normalized collection, once the filter
\* has run the filtered set is exactly the events with magnitude >= min_mag,
\* in order; a threshold above every magnitude gives the empty set.
C4_FilterExact ==
    FilterAttempted =>
        /\ filtered_df # Unbound
        /\ LET K == {i \in DOMAIN df.rows : df.rows[i].mag >= min_mag}
           IN  /\ Len(filtered_df.rows) = Cardinality(K)
               /\ \A i \in K :
                    /\ filtered_df.rows[Rank(K, i)].mag = df.rows[i].mag
                    /\ filtered_df.rows[Rank(K, i)].place = df.rows[i].place

\* -------------------------------------------------------------------- C5
\* C5: over any sequence of reruns the feed is requested at most once; the
\* result of that request, failed or not, is the cache entry from then on.
C5_AtMostOneGet ==
    /\ httpGets <= 1
    /\ st_cache.set <=> httpGets = 1

\* a rerun was served from the cache after the first fetch had failed
C5_Witness ==
    /\ loaded = "hit"
    /\ AcquisitionFails(response)
    /\ httpGets = 1

\* -------------------------------------------------------------------- C6
\* C6: the normalized collection is never changed downstream: in every run
\* df is the table as cached right after normalization, and the cached table
\* itself never changes.
C6_SourceUnchanged ==
    /\ [](df # Unbound => df = st_cache.df)
    /\ [][st_cache.set => st_cache' = st_cache]_vars

\* a rerun has filtered some events out and added the histogram columns
C6_Witness ==
    /\ pc = "done"
    /\ loaded = "hit"
    /\ hourly_counts # Unbound
    /\ "hour" \in filtered_df.columns
    /\ Len(filtered_df.rows) < Len(df.rows)

\* -------------------------------------------------------------------- C7
\* C7: for a non-empty filtered set the histogram exists, its counts sum to
\* the number of filtered events, its bucket indices are within 0..23 and
\* they are strictly ascending.
C7_Histogram ==
    /\ (pc = "done" /\ Len(filtered_df.rows) > 0) => hourly_counts # Unbound
    /\ hourly_counts # Unbound =>
          /\ Len(filtered_df.rows) > 0
          /\ SumSeq(hourly_counts.values) = Len(filtered_df.rows)
          /\ \A i \in DOMAIN hourly_counts.index :
                hourly_counts.index[i] \in 0..23
          /\ \A i, j \in DOMAIN hourly_counts.index :
                i < j => hourly_counts.index[i] < hourly_counts.index[j]

\* two buckets, from events that arrive with the later hour first
C7_Witness ==
    /\ hourly_counts # Unbound
    /\ Len(hourly_counts.index) = 2
    /\ Len(filtered_df.rows) = 2
    /\ filtered_df.rows[1].hour > filtered_df.rows[2].hour

\* -------------------------------------------------------------------- C8
\* C8: every event's longitude is element 0 and its latitude element 1 of
\* the feature's coordinates, and the map layer positions each event at
\* [lon, lat]; coordinates [10, 20] give longitude 10 and latitude 20.
C8_LonLatOrder ==
    /\ (df # Unbound /\ SuccessfulFetch(response)) =>
          LET f == response.body.features
              K == Kept(f)
          IN  \A i \in K :
                /\ df.rows[Rank(K, i)].lon = f[i].geometry.coordinates[1]
                /\ df.rows[Rank(K, i)].lat = f[i].geometry.coordinates[2]
                /\ f[i].geometry.coordinates = <<10, 20>> =>
                     /\ df.rows[Rank(K, i)].lon = 10
                     /\ df.rows[Rank(K, i)].lat = 20
    /\ layer # Unbound =>
          /\ DOMAIN layer.get_position = DOMAIN filtered_df.rows
          /\ \A j \in DOMAIN filtered_df.rows :
                /\ layer.get_position[j][1] = filtered_df.rows[j].lon
                /\ layer.get_position[j][2] = filtered_df.rows[j].lat

\* the map shows an event whose feature had coordinates [10, 20]
C8_Witness ==
    /\ layer # Unbound
    /\ SuccessfulFetch(response)
    /\ response.body.features[1].properties.mag # Null
    /\ response.body.features[1].geometry.coordinates = <<10, 20>>
    /\ \E j \in DOMAIN layer.get_position : layer.get_position[j] = <<10, 20>>

\* -------------------------------------------------------------------- C9
\* C9: a response with a non-2xx status is a data acquisition failure: the
\* table is empty and an error message is shown, whatever the body.
C9_Non2xxIsFailure ==
    (df # Unbound /\ response.kind \in {"badjson", "json"}
                  /\ response.status \notin 200..299) =>
        /\ Len(df.rows) = 0
        /\ st_errors = 1

\* ------------------------------------------------------------------- C10
\* C10: a feature without a 'mag' key is skipped like one with a null
\* magnitude: every other feature with a non-null magnitude is materialized
\* and no error is reported.
C10_AbsentMagSkipped ==
    (/\ df # Unbound
     /\ HasFeatures(response)
     /\ \E i \in DOMAIN response.body.features :
           MagAbsent(response.body.features[i])
     /\ \A i \in DOMAIN response.body.features :
           \/ MagAbsent(response.body.features[i])
           \/ ~BadItem(response.body.features[i])) =>
        LET f == response.body.features
            K == {i \in DOMAIN f : ~MagAbsent(f[i]) /\ f[i].properties.mag # Null}
        IN  /\ st_errors = 0
            /\ Len(df.rows) = Cardinality(K)

====
